---------------------------- MODULE Spec2Model ----------------------------
(***************************************************************************)
(* Model of the data link layer of lab1-code-25-26 (link_layer.c): byte    *)
(* stuffing, BCC checks, the SET/UA handshake, llwrite with RR/REJ         *)
(* acknowledgments and llread, two endpoints joined by two byte channels.  *)
(***************************************************************************)
EXTENDS Integers, Sequences, FiniteSets, TLC

VARIABLES
    \* codec harness: stuffData / destuffData applied to a chosen input
    cdata, cstuffed, cdest, cpc,
    \* transmitter endpoint (llopen LlTx, llwrite)
    txPc, portTx, retries, txState, receivedControl, ackReceived,
    alarmFlag, alarmArmed, sequenceNumber, txBuf, txRet,
    \* receiver endpoint (llopen LlRx, llread)
    rxPc, portRx, rxState, inFrame, frame, expectedSeq, rxRet, packet,
    \* the serial line: bytes in flight, one frame per element
    chanTR, chanRT,
    \* history of the run (not program state)
    written, delivered, sentLog, rdLog, txTail, faults, rrDrops,
    writes, fed, fedKinds,
    \* connectionParameters handed to llopen
    nRetransmissions, timeout,
    \* llclose: the receiver process's alarm, and the frames written by llclose
    rxAlarmFlag, rxAlarmArmed, closeLog,
    \* transmitter harness: number of frames the peer has sent
    peerSent

codecVars == <<cdata, cstuffed, cdest, cpc>>
txVars == <<txPc, portTx, retries, txState, receivedControl, ackReceived,
            alarmFlag, alarmArmed, sequenceNumber, txBuf, txRet>>
rxVars == <<rxPc, portRx, rxState, inFrame, frame, expectedSeq, rxRet, packet>>
chanVars == <<chanTR, chanRT>>
histVars == <<written, delivered, sentLog, rdLog, txTail, faults, rrDrops,
              writes, fed, fedKinds>>
cfgVars == <<nRetransmissions, timeout>>
closeVars == <<rxAlarmFlag, rxAlarmArmed, closeLog>>
peerVars == <<peerSent>>
vars == <<codecVars, txVars, rxVars, chanVars, histVars, cfgVars, closeVars, peerVars>>

-----------------------------------------------------------------------------
(* Protocol constants, link_layer.c:10-22 *)
FLAG == 126
ESC == 125
ESC_FLAG == 94
ESC_ESC == 93
A_SENDER == 3
A_RECEIVER == 1
C_SET == 3
C_UA == 7
C_DISC == 11
C_RR0 == 5
C_RR1 == 133
C_REJ0 == 1
C_REJ1 == 129
C_I0 == 0
C_I1 == 64
MAX_RETRIES == 3
TIMEOUT == 3
FRAME_BUF == 2048

(* Bounds of the model *)
MaxLen == 3
MaxWrites == 2
MaxQuietWrites == 3
MaxFaults == 1
MaxFeeds == 2
MaxSessionWrites == 3
MaxPeerFrames == 4
MaxCloseFeeds == 3

-----------------------------------------------------------------------------
(* Bytes: unsigned char arithmetic *)
RECURSIVE XorBits(_, _, _)
XorBits(a, b, n) ==
    IF n = 0 THEN 0
    ELSE (((a % 2) + (b % 2)) % 2) + 2 * XorBits(a \div 2, b \div 2, n - 1)

\* a ^ b on four bits, tabulated
XorTab == [a \in 0..15 |-> [b \in 0..15 |-> XorBits(a, b, 4)]]

\* a ^ b on unsigned char
Xor(a, b) == XorTab[a % 16][b % 16] + 16 * XorTab[a \div 16][b \div 16]

\* bit 6 of a control byte: (control & 0x40) ? 1 : 0
SeqBit(control) == (control \div 64) % 2

-----------------------------------------------------------------------------
(* Byte stuffing *)
RECURSIVE stuffData_NoEscEsc(_)
stuffData_NoEscEsc(data) ==
    IF data = <<>> THEN <<>>
    ELSE IF Head(data) = FLAG THEN <<ESC, ESC_FLAG>> \o stuffData_NoEscEsc(Tail(data))
    ELSE <<Head(data)>> \o stuffData_NoEscEsc(Tail(data))

RECURSIVE stuffData(_)
stuffData(data) ==
    IF data = <<>> THEN <<>>
    ELSE IF Head(data) = FLAG THEN <<ESC, ESC_FLAG>> \o stuffData(Tail(data))
    ELSE IF Head(data) = ESC THEN <<ESC, ESC_ESC>> \o stuffData(Tail(data))
    ELSE <<Head(data)>> \o stuffData(Tail(data))

RECURSIVE destuffData(_)
destuffData(data) ==
    IF data = <<>> THEN <<>>
    ELSE IF Head(data) = ESC
         THEN IF Len(data) >= 2
              THEN <<IF data[2] = ESC_FLAG THEN FLAG ELSE ESC>>
                       \o destuffData(SubSeq(data, 3, Len(data)))
              ELSE <<>>
         ELSE <<Head(data)>> \o destuffData(Tail(data))

-----------------------------------------------------------------------------
(* Frames *)
SupFrame_SumBcc(a, c) == <<FLAG, a, c, a + c, FLAG>>

\* a 5-byte supervisory / unnumbered frame {FLAG, A, C, A ^ C, FLAG}
SupFrame(a, c) == <<FLAG, a, c, Xor(a, c), FLAG>>

\* llwrite: bcc2 = 0; for (i...) bcc2 ^= buf[i]
RECURSIVE BCC2(_)
BCC2(buf) ==
    IF buf = <<>> THEN 0 ELSE Xor(BCC2(SubSeq(buf, 1, Len(buf) - 1)), buf[Len(buf)])

IControl_Zero(sn) == C_I0

\* llwrite: control of the I-frame for the current sequenceNumber
IControl(sn) == IF sn = 0 THEN C_I0 ELSE C_I1

\* llwrite: the I-frame built around an already checksummed buffer
FrameAround(dataWithBCC, sn) ==
    <<FLAG, A_SENDER, IControl(sn), Xor(A_SENDER, IControl(sn))>>
        \o stuffData(dataWithBCC) \o <<FLAG>>

\* llwrite: unsigned char frame[2 * bufSize + 6]
FrameAlloc(bufSize) == 2 * bufSize + 6

\* llwrite: the frame written to the port for payload buf
IFrame(buf, sn) == FrameAround(buf \o <<BCC2(buf)>>, sn)

-----------------------------------------------------------------------------
(* Receiver state machines for supervisory frames *)
\* the five-state switch of llopen / llclose awaiting the frame (a, c);
\* state 5 stands for the accepting branch of case 4
SupStep(state, byte, a, c) ==
    CASE state = 0 -> IF byte = FLAG THEN 1 ELSE 0
      [] state = 1 -> IF byte = a THEN 2 ELSE IF byte # FLAG THEN 0 ELSE 1
      [] state = 2 -> IF byte = c THEN 3 ELSE IF byte = FLAG THEN 1 ELSE 0
      [] state = 3 -> IF byte = Xor(a, c) THEN 4 ELSE IF byte = FLAG THEN 1 ELSE 0
      [] state = 4 -> IF byte = FLAG THEN 5 ELSE 0
      [] OTHER -> state

RRNext_Same(sn) == IF sn = 0 THEN C_RR0 ELSE C_RR1

RRNext(sn) == IF sn = 0 THEN C_RR1 ELSE C_RR0

REJCur(sn) == IF sn = 0 THEN C_REJ0 ELSE C_REJ1

\* the switch of llwrite's wait loop: new state, receivedControl, ackReceived
AckStep(state, rc, byte, sn) ==
    CASE state = 0 -> [state |-> IF byte = FLAG THEN 1 ELSE 0, rc |-> rc, ack |-> FALSE]
      [] state = 1 -> [state |-> IF byte = A_RECEIVER THEN 2
                                 ELSE IF byte # FLAG THEN 0 ELSE 1,
                       rc |-> rc, ack |-> FALSE]
      [] state = 2 -> [state |-> IF byte = RRNext(sn) THEN 3
                                 ELSE IF byte = REJCur(sn) THEN 3
                                 ELSE IF byte = FLAG THEN 1 ELSE 0,
                       rc |-> byte, ack |-> FALSE]
      [] state = 3 -> [state |-> IF byte = Xor(A_RECEIVER, rc) THEN 4
                                 ELSE IF byte = FLAG THEN 1 ELSE 0,
                       rc |-> rc, ack |-> FALSE]
      [] state = 4 -> IF byte = FLAG
                      THEN [state |-> 4, rc |-> rc, ack |-> TRUE]
                      ELSE [state |-> 0, rc |-> rc, ack |-> FALSE]
      [] OTHER -> [state |-> state, rc |-> rc, ack |-> FALSE]

-----------------------------------------------------------------------------
(* llread after the closing flag: validation and reply *)
\* reply: control byte of the supervisory frame sent; ret: return value;
\* data: bytes copied to packet (none unless ret >= 0); exp: new expectedSeq
\* duplicate branch: rr = (expectedSeq == 0) ? C_RR1 : C_RR0
DupRR(exp) == IF exp = 0 THEN C_RR1 ELSE C_RR0

\* accepted branch: rr = (expectedSeq == 0) ? C_RR1 : C_RR0, before the toggle
AcceptRR(exp) == IF exp = 0 THEN C_RR1 ELSE C_RR0

\* send_rej: rej = (expectedSeq == 0) ? C_REJ0 : C_REJ1
RejFor(exp) == IF exp = 0 THEN C_REJ0 ELSE C_REJ1

Reject(exp) == [reply |-> RejFor(exp), ret |-> -1, data |-> <<>>, exp |-> exp]

Validate_NoBCC2(f, exp) ==
    IF Len(f) < 5 THEN Reject(exp)
    ELSE IF Xor(f[2], f[3]) # f[4] THEN Reject(exp)
    ELSE IF SeqBit(f[3]) # exp
         THEN [reply |-> DupRR(exp), ret |-> -1, data |-> <<>>, exp |-> exp]
    ELSE LET data == destuffData(SubSeq(f, 5, Len(f) - 1))
             dataSize == Len(data)
         IN  IF dataSize < 1 THEN Reject(exp)
             ELSE [reply |-> AcceptRR(exp), ret |-> dataSize - 1,
                   data |-> SubSeq(data, 1, dataSize - 1), exp |-> 1 - exp]

Validate(f, exp) ==
    IF Len(f) < 5 THEN Reject(exp)
    ELSE IF Xor(f[2], f[3]) # f[4] THEN Reject(exp)
    ELSE IF SeqBit(f[3]) # exp
         THEN [reply |-> DupRR(exp), ret |-> -1, data |-> <<>>, exp |-> exp]
    ELSE LET data == destuffData(SubSeq(f, 5, Len(f) - 1))
             dataSize == Len(data)
         IN  IF dataSize < 1 THEN Reject(exp)
             ELSE IF BCC2(SubSeq(data, 1, dataSize - 1)) # data[dataSize]
                  THEN Reject(exp)
             ELSE [reply |-> AcceptRR(exp), ret |-> dataSize - 1,
                   data |-> SubSeq(data, 1, dataSize - 1), exp |-> 1 - exp]

-----------------------------------------------------------------------------
(* The serial line *)
\* The read loops take one byte per iteration and act on the outside only
\* when a flag byte is read, so one step of a read loop is modelled as the
\* iterations that read the bytes up to and including the next flag byte.
\* index of the first flag byte of f at or after i, Len(f) when there is none
FlagPos(f, i) ==
    LET flags == {k \in i..Len(f) : f[k] = FLAG}
    IN  IF flags = {} THEN Len(f)
        ELSE CHOOSE k \in flags : \A j \in flags : k <= j

NextBytes(ch) == SubSeq(Head(ch), 1, FlagPos(Head(ch), 1))

\* the line after readByteSerialPort has taken the first n bytes
Pop(ch, n) ==
    IF Len(Head(ch)) = n THEN Tail(ch)
    ELSE <<SubSeq(Head(ch), n + 1, Len(Head(ch)))>> \o Tail(ch)

RemoveAt(ch, i) == SubSeq(ch, 1, i - 1) \o SubSeq(ch, i + 1, Len(ch))

Last5(t, bs) ==
    LET all == t \o bs
    IN  IF Len(all) <= 5 THEN all ELSE SubSeq(all, Len(all) - 4, Len(all))

Payloads == {<<72>>, <<126>>, <<72, 105>>}

\* the packets the application writes, in order
PacketNo(n) == IF n % 3 = 0 THEN <<72>> ELSE IF n % 3 = 1 THEN <<126>> ELSE <<72, 105>>

RECURSIVE SupRun(_, _, _, _)
SupRun(state, bytes, a, c) ==
    IF bytes = <<>> THEN state
    ELSE SupRun(SupStep(state, Head(bytes), a, c), Tail(bytes), a, c)

RECURSIVE AckRun(_, _, _)
AckRun(r, bytes, sn) ==
    IF bytes = <<>> THEN r
    ELSE AckRun(AckStep(r.state, r.rc, Head(bytes), sn), Tail(bytes), sn)

\* llread: one iteration on a byte other than the flag
CaptureByte(r, byte) ==
    IF ~r.inFrame THEN r
    ELSE IF Len(r.frame) < FRAME_BUF
         THEN [inFrame |-> TRUE, frame |-> Append(r.frame, byte)]
    ELSE [inFrame |-> FALSE, frame |-> <<>>]

\* llread's loop over bytes other than the flag: CaptureByte on each byte in
\* turn, the bytes taken half by half
RECURSIVE Capture(_, _)
Capture(r, bytes) ==
    IF bytes = <<>> THEN r
    ELSE IF Len(bytes) = 1 THEN CaptureByte(r, bytes[1])
    ELSE LET h == Len(bytes) \div 2
             mid == Capture(r, SubSeq(bytes, 1, h))
         IN  IF mid.inFrame THEN Capture(mid, SubSeq(bytes, h + 1, Len(bytes)))
             ELSE mid

-----------------------------------------------------------------------------
(* Initial states *)
CodecIdle ==
    /\ cdata = <<>> /\ cstuffed = <<>> /\ cdest = <<>> /\ cpc = "off"

TxInit ==
    /\ txPc = "start" /\ portTx = FALSE /\ retries = 0 /\ txState = 0
    /\ receivedControl = 0 /\ ackReceived = FALSE
    /\ alarmFlag = 0 /\ alarmArmed = FALSE
    /\ sequenceNumber = 0 /\ txBuf = <<>> /\ txRet = 0

RxInit ==
    /\ rxPc = "start" /\ portRx = FALSE /\ rxState = 0
    /\ inFrame = FALSE /\ frame = <<>> /\ expectedSeq = 0
    /\ rxRet = 0 /\ packet = <<>>

HistInit ==
    /\ written = <<>> /\ delivered = <<>> /\ sentLog = <<>> /\ rdLog = <<>>
    /\ txTail = <<>> /\ faults = 0 /\ rrDrops = 0 /\ writes = 0
    /\ fed = <<>> /\ fedKinds = <<>>

\* a configuration asking for the values the link layer is built with
CfgInit ==
    /\ nRetransmissions = MAX_RETRIES /\ timeout = TIMEOUT

CloseInit ==
    /\ rxAlarmFlag = 0 /\ rxAlarmArmed = FALSE /\ closeLog = <<>>
    /\ peerSent = 0

Init ==
    /\ CodecIdle /\ TxInit /\ RxInit /\ HistInit /\ CfgInit /\ CloseInit
    /\ chanTR = <<>> /\ chanRT = <<>>

-----------------------------------------------------------------------------
(* llopen, transmitter role *)
LlopenTx ==
    /\ txPc \in {"start", "closed"}
    /\ portTx' = TRUE
    /\ retries' = 0
    /\ chanTR' = Append(chanTR, SupFrame(A_SENDER, C_SET))
    /\ alarmArmed' = TRUE
    /\ alarmFlag' = 0
    /\ txState' = 0
    /\ txPc' = "open_wait"
    /\ txTail' = <<>>
    /\ UNCHANGED <<receivedControl, ackReceived, sequenceNumber, txBuf, txRet>>
    /\ UNCHANGED <<cfgVars, peerVars, closeVars, codecVars, rxVars, chanRT>>
    /\ UNCHANGED <<written, delivered, sentLog, rdLog, faults, rrDrops, writes,
                   fed, fedKinds>>

\* iterations of while (!alarmFlag) that read bytes
LlopenTxRead ==
    /\ txPc = "open_wait"
    /\ alarmFlag = 0
    /\ chanRT # <<>>
    /\ LET bs == NextBytes(chanRT)
           s == SupRun(txState, bs, A_RECEIVER, C_UA)
       IN  /\ chanRT' = Pop(chanRT, Len(bs))
           /\ txTail' = Last5(txTail, bs)
           /\ IF s = 5
              THEN /\ alarmArmed' = FALSE
                   /\ txRet' = 0
                   /\ txPc' = "ready"
                   /\ txState' = txState
              ELSE /\ txState' = s
                   /\ UNCHANGED <<alarmArmed, txRet, txPc>>
    /\ UNCHANGED <<portTx, retries, receivedControl, ackReceived, alarmFlag,
                   sequenceNumber, txBuf>>
    /\ UNCHANGED <<cfgVars, peerVars, closeVars, codecVars, rxVars, chanTR>>
    /\ UNCHANGED <<written, delivered, sentLog, rdLog, faults, rrDrops, writes,
                   fed, fedKinds>>

\* the loop condition of llopen and of llclose after retries++
HandshakeMayRetry_OneMore(r) == r < MAX_RETRIES + 1

HandshakeMayRetry(r) == r < MAX_RETRIES

\* the wait loop left by alarmFlag: retries++, then resend or give up
LlopenTxTimeout ==
    /\ txPc = "open_wait"
    /\ alarmFlag = 1
    /\ retries' = retries + 1
    /\ IF HandshakeMayRetry(retries + 1)
       THEN /\ chanTR' = Append(chanTR, SupFrame(A_SENDER, C_SET))
            /\ alarmArmed' = TRUE
            /\ alarmFlag' = 0
            /\ txState' = 0
            /\ UNCHANGED <<portTx, txRet, txPc>>
       ELSE /\ alarmArmed' = FALSE
            /\ portTx' = FALSE
            /\ txRet' = -1
            /\ txPc' = "open_failed"
            /\ UNCHANGED <<chanTR, alarmFlag, txState>>
    /\ UNCHANGED <<receivedControl, ackReceived, sequenceNumber, txBuf>>
    /\ UNCHANGED <<cfgVars, peerVars, closeVars, codecVars, rxVars, chanRT>>
    /\ UNCHANGED histVars

\* the argument of every alarm() call that arms the transmitter's timer
AlarmSeconds == TIMEOUT

\* SIGALRM delivered: handleAlarm
HandleAlarm ==
    /\ alarmArmed
    /\ alarmFlag' = 1
    /\ alarmArmed' = FALSE
    /\ UNCHANGED <<txPc, portTx, retries, txState, receivedControl, ackReceived,
                   sequenceNumber, txBuf, txRet>>
    /\ UNCHANGED <<cfgVars, peerVars, closeVars, codecVars, rxVars, chanVars, histVars>>

(* llopen, receiver role *)
LlopenRx ==
    /\ rxPc \in {"start", "closed"}
    /\ portRx' = TRUE
    /\ rxState' = 0
    /\ rxPc' = "open_wait"
    /\ UNCHANGED <<inFrame, frame, expectedSeq, rxRet, packet>>
    /\ UNCHANGED <<cfgVars, peerVars, closeVars, codecVars, txVars, chanVars, histVars>>

\* iterations of while (1) that read bytes
LlopenRxRead ==
    /\ rxPc = "open_wait"
    /\ chanTR # <<>>
    /\ LET bs == NextBytes(chanTR)
           s == SupRun(rxState, bs, A_SENDER, C_SET)
       IN  /\ chanTR' = Pop(chanTR, Len(bs))
           /\ IF s = 5
              THEN /\ chanRT' = Append(chanRT, SupFrame(A_RECEIVER, C_UA))
                   /\ rxRet' = 0
                   /\ rxPc' = "ready"
                   /\ rxState' = rxState
              ELSE /\ rxState' = s
                   /\ UNCHANGED <<chanRT, rxRet, rxPc>>
    /\ UNCHANGED <<portRx, inFrame, frame, expectedSeq, packet>>
    /\ UNCHANGED <<cfgVars, peerVars, closeVars, codecVars, txVars, histVars>>

-----------------------------------------------------------------------------
(* llwrite *)
\* one pass of the body of while (retries < MAX_RETRIES) up to the wait loop:
\* build the I-frame, write it, alarm(TIMEOUT), alarmFlag = 0
SendIFrame(buf, log) ==
    /\ chanTR' = Append(chanTR, IFrame(buf, sequenceNumber))
    /\ alarmArmed' = TRUE
    /\ alarmFlag' = 0
    /\ txState' = 0
    /\ receivedControl' = 0
    /\ ackReceived' = FALSE
    /\ sentLog' = Append(log, IControl(sequenceNumber))

\* the application calls llwrite(buf, bufSize) with its next packet
LlwriteCall(buf, max) ==
    /\ txPc = "ready"
    /\ writes < max
    /\ writes' = writes + 1
    /\ txBuf' = buf
    /\ retries' = 0
    /\ SendIFrame(buf, <<>>)
    /\ txPc' = "write_wait"
    /\ txTail' = <<>>
    /\ rrDrops' = 0
    /\ UNCHANGED <<portTx, sequenceNumber, txRet>>
    /\ UNCHANGED <<cfgVars, peerVars, closeVars, codecVars, rxVars, chanRT>>
    /\ UNCHANGED <<written, delivered, rdLog, faults, fed, fedKinds>>

\* the application writes the packets of its file, in order
Llwrite == LlwriteCall(PacketNo(writes), MaxWrites)

\* the application writes any packet
LlwriteAny == \E buf \in Payloads : LlwriteCall(buf, MaxQuietWrites)

\* iterations of while (!alarmFlag && !ackReceived) that read bytes
LlwriteRead ==
    /\ txPc = "write_wait"
    /\ alarmFlag = 0
    /\ ~ackReceived
    /\ chanRT # <<>>
    /\ LET bs == NextBytes(chanRT)
           r == AckRun([state |-> txState, rc |-> receivedControl, ack |-> FALSE],
                       bs, sequenceNumber)
       IN  /\ chanRT' = Pop(chanRT, Len(bs))
           /\ txTail' = Last5(txTail, bs)
           /\ txState' = r.state
           /\ receivedControl' = r.rc
           /\ ackReceived' = r.ack
    /\ UNCHANGED <<txPc, portTx, retries, alarmFlag, alarmArmed, sequenceNumber,
                   txBuf, txRet>>
    /\ UNCHANGED <<cfgVars, peerVars, closeVars, codecVars, rxVars, chanTR>>
    /\ UNCHANGED <<written, delivered, sentLog, rdLog, faults, rrDrops, writes,
                   fed, fedKinds>>

\* below the wait loop: does the accepted frame carry the awaited RR?
IsAwaitedRR(rc, sn) == rc = RRNext(sn)

\* below the wait loop: if (ackReceived), whatever alarmFlag holds by then
Acknowledged_UnlessAlarm(ack, flag) == ack /\ flag = 0

Acknowledged(ack, flag) == ack

\* retries++ in the REJ branch and in the timeout branch alike
RetriesAfter_RejFree(r, ack) == IF ack THEN r ELSE r + 1

RetriesAfter(r, ack) == r + 1

\* the loop condition of llwrite after retries++
MayRetry_OneMore(r) == r < MAX_RETRIES + 1

MayRetry(r) == r < MAX_RETRIES

\* the wait loop left: alarm(0), then success, or retries++ and resend / give up
LlwriteEval ==
    /\ txPc = "write_wait"
    /\ (alarmFlag = 1 \/ ackReceived)
    /\ IF /\ Acknowledged(ackReceived, alarmFlag)
          /\ IsAwaitedRR(receivedControl, sequenceNumber)
       THEN /\ alarmArmed' = FALSE
            /\ sequenceNumber' = 1 - sequenceNumber
            /\ txRet' = Len(txBuf)
            /\ txPc' = "ready"
            /\ written' = Append(written, [data |-> txBuf,
                                                sn |-> SeqBit(sentLog[Len(sentLog)])])
            /\ UNCHANGED <<retries, chanTR, alarmFlag, txState, receivedControl,
                           ackReceived, sentLog>>
       ELSE /\ retries' = RetriesAfter(retries, ackReceived)
            /\ IF MayRetry(RetriesAfter(retries, ackReceived))
               THEN /\ SendIFrame(txBuf, sentLog)
                    /\ UNCHANGED <<txRet, txPc>>
               ELSE /\ alarmArmed' = FALSE
                    /\ txRet' = -1
                    /\ txPc' = "write_failed"
                    /\ UNCHANGED <<chanTR, alarmFlag, txState, receivedControl,
                                   ackReceived, sentLog>>
            /\ UNCHANGED <<sequenceNumber, written>>
    /\ UNCHANGED <<portTx, txBuf>>
    /\ UNCHANGED <<cfgVars, peerVars, closeVars, codecVars, rxVars, chanRT>>
    /\ UNCHANGED <<delivered, rdLog, txTail, faults, rrDrops, writes, fed, fedKinds>>

-----------------------------------------------------------------------------
(* llread *)
\* iterations of while (1) that read bytes; on the closing flag the rest of
\* the call runs: validation, reply, return (the caller then calls again)
LlreadRead ==
    /\ rxPc = "ready"
    /\ chanTR # <<>>
    /\ LET bs == NextBytes(chanTR)
           b == bs[Len(bs)]
           c == Capture([inFrame |-> inFrame, frame |-> frame],
                        IF b = FLAG THEN SubSeq(bs, 1, Len(bs) - 1) ELSE bs)
       IN  /\ chanTR' = Pop(chanTR, Len(bs))
           /\ IF b = FLAG /\ c.inFrame
              THEN LET f == Append(c.frame, b)
                       r == Validate(f, expectedSeq)
                   IN  /\ chanRT' = Append(chanRT, SupFrame(A_RECEIVER, r.reply))
                       /\ expectedSeq' = r.exp
                       /\ rxRet' = r.ret
                       /\ packet' = IF r.ret >= 0 THEN r.data ELSE packet
                       /\ delivered' = IF r.ret >= 0 THEN Append(delivered, r.data)
                                       ELSE delivered
                       /\ rdLog' = <<[frame |-> f, reply |-> r.reply,
                                      ret |-> r.ret, data |-> r.data,
                                      exp |-> expectedSeq]>>
                       /\ inFrame' = FALSE
                       /\ frame' = <<>>
              ELSE /\ IF b = FLAG
                      THEN inFrame' = TRUE /\ frame' = <<b>>
                      ELSE inFrame' = c.inFrame /\ frame' = c.frame
                   /\ UNCHANGED <<chanRT, expectedSeq, rxRet, packet, delivered, rdLog>>
    /\ UNCHANGED <<rxPc, portRx, rxState>>
    /\ UNCHANGED <<cfgVars, peerVars, closeVars, codecVars, txVars>>
    /\ UNCHANGED <<written, sentLog, txTail, faults, rrDrops, writes, fed, fedKinds>>

-----------------------------------------------------------------------------
(* llclose, transmitter role *)
\* frame[] as llclose fills it before each writeBytesSerialPort
DiscTx == SupFrame(A_SENDER, C_DISC)

DiscRx == SupFrame(A_RECEIVER, C_DISC)

FinalUA_SenderAddr == SupFrame(A_SENDER, C_UA)

FinalUA == SupFrame(A_RECEIVER, C_UA)

\* the application calls llclose after its last packet, or after a failed
\* llwrite; first pass of while (retries < MAX_RETRIES) up to the wait loop
LlcloseTx ==
    /\ txPc \in {"ready", "write_failed"}
    /\ retries' = 0
    /\ chanTR' = Append(chanTR, DiscTx)
    /\ closeLog' = Append(closeLog, DiscTx)
    /\ alarmArmed' = TRUE
    /\ alarmFlag' = 0
    /\ txState' = 0
    /\ txPc' = "close_wait"
    /\ txTail' = <<>>
    /\ UNCHANGED <<portTx, receivedControl, ackReceived, sequenceNumber, txBuf, txRet>>
    /\ UNCHANGED <<cfgVars, peerVars, codecVars, rxVars, chanRT, rxAlarmFlag, rxAlarmArmed>>
    /\ UNCHANGED <<written, delivered, sentLog, rdLog, faults, rrDrops, writes,
                   fed, fedKinds>>

\* iterations of while (!alarmFlag) that read bytes; disc_received: alarm(0),
\* write UA, sleep, closeSerialPort, return 0
LlcloseTxRead ==
    /\ txPc = "close_wait"
    /\ alarmFlag = 0
    /\ chanRT # <<>>
    /\ LET bs == NextBytes(chanRT)
           s == SupRun(txState, bs, A_RECEIVER, C_DISC)
       IN  /\ chanRT' = Pop(chanRT, Len(bs))
           /\ txTail' = Last5(txTail, bs)
           /\ IF s = 5
              THEN /\ alarmArmed' = FALSE
                   /\ chanTR' = Append(chanTR, FinalUA)
                   /\ closeLog' = Append(closeLog, FinalUA)
                   /\ portTx' = FALSE
                   /\ txRet' = 0
                   /\ txPc' = "closed"
                   /\ txState' = txState
              ELSE /\ txState' = s
                   /\ UNCHANGED <<alarmArmed, chanTR, closeLog, portTx, txRet, txPc>>
    /\ UNCHANGED <<retries, receivedControl, ackReceived, alarmFlag,
                   sequenceNumber, txBuf>>
    /\ UNCHANGED <<cfgVars, peerVars, codecVars, rxVars, rxAlarmFlag, rxAlarmArmed>>
    /\ UNCHANGED <<written, delivered, sentLog, rdLog, faults, rrDrops, writes,
                   fed, fedKinds>>

\* the wait loop left by alarmFlag: retries++, then resend DISC or give up
LlcloseTxTimeout ==
    /\ txPc = "close_wait"
    /\ alarmFlag = 1
    /\ retries' = retries + 1
    /\ IF HandshakeMayRetry(retries + 1)
       THEN /\ chanTR' = Append(chanTR, DiscTx)
            /\ closeLog' = Append(closeLog, DiscTx)
            /\ alarmArmed' = TRUE
            /\ alarmFlag' = 0
            /\ txState' = 0
            /\ UNCHANGED <<portTx, txRet, txPc>>
       ELSE /\ alarmArmed' = FALSE
            /\ portTx' = FALSE
            /\ txRet' = -1
            /\ txPc' = "close_failed"
            /\ UNCHANGED <<chanTR, closeLog, alarmFlag, txState>>
    /\ UNCHANGED <<receivedControl, ackReceived, sequenceNumber, txBuf>>
    /\ UNCHANGED <<cfgVars, peerVars, codecVars, rxVars, chanRT, rxAlarmFlag, rxAlarmArmed>>
    /\ UNCHANGED histVars

(* llclose, receiver role *)
LlcloseRx ==
    /\ rxPc = "ready"
    /\ rxState' = 0
    /\ rxPc' = "close_wait_disc"
    /\ UNCHANGED <<portRx, inFrame, frame, expectedSeq, rxRet, packet>>
    /\ UNCHANGED <<cfgVars, peerVars, closeVars, codecVars, txVars, chanVars, histVars>>

\* iterations of while (1) that read bytes; send_disc: write DISC, state = 0,
\* alarm(TIMEOUT * 2), alarmFlag = 0
LlcloseRxRead ==
    /\ rxPc = "close_wait_disc"
    /\ chanTR # <<>>
    /\ LET bs == NextBytes(chanTR)
           s == SupRun(rxState, bs, A_SENDER, C_DISC)
       IN  /\ chanTR' = Pop(chanTR, Len(bs))
           /\ IF s = 5
              THEN /\ chanRT' = Append(chanRT, DiscRx)
                   /\ closeLog' = Append(closeLog, DiscRx)
                   /\ rxAlarmArmed' = TRUE
                   /\ rxAlarmFlag' = 0
                   /\ rxState' = 0
                   /\ rxPc' = "close_wait_ua"
              ELSE /\ rxState' = s
                   /\ UNCHANGED <<chanRT, closeLog, rxAlarmArmed, rxAlarmFlag, rxPc>>
    /\ UNCHANGED <<portRx, inFrame, frame, expectedSeq, rxRet, packet>>
    /\ UNCHANGED <<cfgVars, peerVars, codecVars, txVars, histVars>>

\* iterations of the second while (!alarmFlag) that read bytes; on the UA:
\* alarm(0), closeSerialPort, return 0
LlcloseRxReadUA ==
    /\ rxPc = "close_wait_ua"
    /\ rxAlarmFlag = 0
    /\ chanTR # <<>>
    /\ LET bs == NextBytes(chanTR)
           s == SupRun(rxState, bs, A_RECEIVER, C_UA)
       IN  /\ chanTR' = Pop(chanTR, Len(bs))
           /\ IF s = 5
              THEN /\ rxAlarmArmed' = FALSE
                   /\ portRx' = FALSE
                   /\ rxRet' = 0
                   /\ rxPc' = "closed"
                   /\ rxState' = rxState
              ELSE /\ rxState' = s
                   /\ UNCHANGED <<rxAlarmArmed, portRx, rxRet, rxPc>>
    /\ UNCHANGED <<inFrame, frame, expectedSeq, packet>>
    /\ UNCHANGED <<cfgVars, peerVars, codecVars, txVars, chanRT, histVars, rxAlarmFlag, closeLog>>

LlcloseRxTimeout_WaitAgain ==
    /\ rxPc = "close_wait_ua"
    /\ rxAlarmFlag = 1
    /\ rxAlarmArmed' = TRUE
    /\ rxAlarmFlag' = 0
    /\ UNCHANGED <<cfgVars, peerVars, codecVars, txVars, rxVars, chanVars, histVars, closeLog>>

\* the second wait loop left by alarmFlag: alarm(0), closeSerialPort, return 0
LlcloseRxTimeout ==
    /\ rxPc = "close_wait_ua"
    /\ rxAlarmFlag = 1
    /\ rxAlarmArmed' = FALSE
    /\ portRx' = FALSE
    /\ rxRet' = 0
    /\ rxPc' = "closed"
    /\ UNCHANGED <<rxState, inFrame, frame, expectedSeq, packet>>
    /\ UNCHANGED <<cfgVars, peerVars, codecVars, txVars, chanVars, histVars, rxAlarmFlag, closeLog>>

\* SIGALRM delivered to the receiver process: handleAlarm
HandleAlarmRx ==
    /\ rxAlarmArmed
    /\ rxAlarmFlag' = 1
    /\ rxAlarmArmed' = FALSE
    /\ UNCHANGED <<cfgVars, peerVars, codecVars, txVars, rxVars, chanVars, histVars, closeLog>>

-----------------------------------------------------------------------------
(* The channel: loss, corruption, delay *)
\* where a frame in flight gets damaged: its control byte (a BCC1 error) or
\* the last byte before its closing flag (a BCC2 error)
CorruptAt(f) == {3, Len(f) - 1} \cap (1..Len(f))

\* a damaged byte arrives with its lowest bit inverted
BitFlip(b) == Xor(b, 1)

IsRRFrame(f) == Len(f) = 5 /\ (f[3] = C_RR0 \/ f[3] = C_RR1)

LoseTR ==
    /\ faults < MaxFaults
    /\ \E i \in 1..Len(chanTR) : chanTR' = RemoveAt(chanTR, i)
    /\ faults' = faults + 1
    /\ UNCHANGED <<cfgVars, peerVars, closeVars, codecVars, txVars, rxVars, chanRT>>
    /\ UNCHANGED <<written, delivered, sentLog, rdLog, txTail, rrDrops, writes,
                   fed, fedKinds>>

LoseRT ==
    /\ faults < MaxFaults
    /\ \E i \in 1..Len(chanRT) : chanRT' = RemoveAt(chanRT, i)
    /\ faults' = faults + 1
    /\ UNCHANGED <<cfgVars, peerVars, closeVars, codecVars, txVars, rxVars, chanTR>>
    /\ UNCHANGED <<written, delivered, sentLog, rdLog, txTail, rrDrops, writes,
                   fed, fedKinds>>

CorruptTR ==
    /\ faults < MaxFaults
    /\ \E i \in 1..Len(chanTR) : \E k \in CorruptAt(chanTR[i]) :
          chanTR' = [chanTR EXCEPT ![i][k] = BitFlip(chanTR[i][k])]
    /\ faults' = faults + 1
    /\ UNCHANGED <<cfgVars, peerVars, closeVars, codecVars, txVars, rxVars, chanRT>>
    /\ UNCHANGED <<written, delivered, sentLog, rdLog, txTail, rrDrops, writes,
                   fed, fedKinds>>

\* an acknowledgment (a whole RR frame) is dropped on its way to the
\* transmitter; the channel drops the first acknowledgments of a write, so
\* none after the transmitter has read one
DropRR ==
    /\ txPc = "write_wait"
    /\ txTail = <<>>
    /\ \E i \in 1..Len(chanRT) :
          /\ IsRRFrame(chanRT[i])
          /\ chanRT' = RemoveAt(chanRT, i)
    /\ rrDrops' = rrDrops + 1
    /\ UNCHANGED <<cfgVars, peerVars, closeVars, codecVars, txVars, rxVars, chanTR>>
    /\ UNCHANGED <<written, delivered, sentLog, rdLog, txTail, faults, writes,
                   fed, fedKinds>>

\* the timer expires only after the line has gone quiet
TimelyAlarm ==
    /\ chanTR = <<>>
    /\ chanRT = <<>>
    /\ HandleAlarm

-----------------------------------------------------------------------------
(* Specifications *)
Endpoints ==
    \/ LlopenTx \/ LlopenTxRead \/ LlopenRx \/ LlopenRxRead
    \/ LlwriteRead \/ LlwriteEval \/ LlreadRead

\* lossy, corrupting, delaying channel
Next == Endpoints \/ Llwrite \/ LlopenTxTimeout \/ HandleAlarm \/ LoseTR \/ LoseRT \/ CorruptTR

Spec == Init /\ [][Next]_vars

\* channel that only drops acknowledgments; everything else arrives in time
NextAckLoss == Endpoints \/ LlwriteAny \/ TimelyAlarm \/ DropRR

SpecAckLoss == Init /\ [][NextAckLoss]_vars

\* loss-free channel, every reply arrives before the timer expires
NextLossFree == Endpoints \/ LlwriteAny

\* each side is a running process: a handshake step that stays possible is taken
SpecLossFree ==
    /\ Init /\ [][NextLossFree]_vars
    /\ WF_vars(LlopenTx) /\ WF_vars(LlopenTxRead)
    /\ WF_vars(LlopenRx) /\ WF_vars(LlopenRxRead)

\* the receiver's UA is lost on its way to the transmitter
LoseUA ==
    /\ faults < MaxFaults
    /\ \E i \in 1..Len(chanRT) :
          /\ chanRT[i] = SupFrame(A_RECEIVER, C_UA)
          /\ chanRT' = RemoveAt(chanRT, i)
    /\ faults' = faults + 1
    /\ UNCHANGED <<cfgVars, peerVars, closeVars, codecVars, txVars, rxVars, chanTR>>
    /\ UNCHANGED <<written, delivered, sentLog, rdLog, txTail, rrDrops, writes,
                   fed, fedKinds>>

\* a line that loses nothing but a UA; everything else arrives in time
NextLostUA == Endpoints \/ LlwriteAny \/ LlopenTxTimeout \/ TimelyAlarm \/ LoseUA

SpecLostUA == Init /\ [][NextLostUA]_vars

\* a whole session on a loss-free line, as applicationLayer runs it: llopen,
\* the packets of a file ending with the END control packet, llclose; then
\* the next session on the same endpoints
CTRL_END == 3

EndPacket == <<CTRL_END>>

SessionPackets == {<<72>>, EndPacket}

\* transmitFile has written its END packet
TxDone == txPc = "ready" /\ txRet > 0 /\ txBuf = EndPacket

\* receiveFile has read the END packet
RxDone == rxPc = "ready" /\ rxRet > 0 /\ packet = EndPacket

SessionWrite ==
    /\ ~TxDone
    /\ \E buf \in SessionPackets : LlwriteCall(buf, MaxSessionWrites)

SessionRead == ~RxDone /\ LlreadRead

SessionCloseTx == (TxDone \/ txPc = "write_failed") /\ LlcloseTx

SessionCloseRx == RxDone /\ LlcloseRx

NextSession ==
    \/ LlopenTx \/ LlopenTxRead \/ LlopenRx \/ LlopenRxRead
    \/ SessionWrite \/ LlwriteRead \/ LlwriteEval \/ SessionRead
    \/ SessionCloseTx \/ LlcloseTxRead
    \/ SessionCloseRx \/ LlcloseRxRead \/ LlcloseRxReadUA

\* both sides are running processes
SpecSession ==
    /\ Init /\ [][NextSession]_vars
    /\ WF_vars(LlwriteRead) /\ WF_vars(LlwriteEval)
    /\ WF_vars(SessionCloseTx) /\ WF_vars(LlcloseTxRead)
    /\ WF_vars(SessionCloseRx) /\ WF_vars(LlcloseRxRead) /\ WF_vars(LlcloseRxReadUA)

-----------------------------------------------------------------------------
(* Transmitter harness: llopen, llwrite and llclose of the transmitter     *)
(* against a peer whose side of the line is not modelled                   *)
\* what the application may put in connectionParameters
Configs == {<<1, 1>>, <<MAX_RETRIES, TIMEOUT>>}

InitTx ==
    /\ CodecIdle /\ TxInit /\ HistInit /\ CloseInit
    /\ \E c \in Configs : nRetransmissions = c[1] /\ timeout = c[2]
    /\ rxPc = "peer" /\ portRx = TRUE /\ rxState = 0
    /\ inFrame = FALSE /\ frame = <<>> /\ expectedSeq = 0
    /\ rxRet = 0 /\ packet = <<>>
    /\ chanTR = <<>> /\ chanRT = <<>>

\* frames the peer may send: every supervisory frame of the protocol from the
\* receiver's address, RR frames from the wrong address, RR frames with a
\* wrong BCC1, and a byte that belongs to no frame
PeerControls == {C_UA, C_DISC, C_RR0, C_RR1, C_REJ0, C_REJ1}

PeerFrames ==
    {SupFrame(A_RECEIVER, c) : c \in PeerControls}
        \cup {SupFrame(A_SENDER, c) : c \in {C_RR0, C_RR1}}
        \cup {<<FLAG, A_RECEIVER, c, 0, FLAG>> : c \in {C_RR0, C_RR1}}
        \cup {<<72>>}

\* the peer has read what was sent to it and sends one frame
PeerSend ==
    /\ rxPc = "peer"
    /\ txPc \in {"open_wait", "write_wait", "close_wait"}
    /\ chanRT = <<>>
    /\ peerSent < MaxPeerFrames
    /\ \E f \in PeerFrames : chanRT' = <<f>>
    /\ peerSent' = peerSent + 1
    /\ chanTR' = <<>>
    /\ UNCHANGED <<cfgVars, closeVars, codecVars, txVars, rxVars, histVars>>

NextTx ==
    \/ LlopenTx \/ LlopenTxRead \/ LlopenTxTimeout
    \/ Llwrite \/ LlwriteRead \/ LlwriteEval
    \/ LlcloseTx \/ LlcloseTxRead \/ LlcloseTxTimeout
    \/ HandleAlarm \/ PeerSend

SpecTx == InitTx /\ [][NextTx]_vars

\* the handshakes of the transmitter on a line that keeps what it was sent
\* and brings back anything but the DISC awaited by llclose
HandshakeNoise ==
    {SupFrame(A_RECEIVER, C_UA), SupFrame(A_SENDER, C_UA), SupFrame(A_SENDER, C_DISC),
     <<FLAG, A_RECEIVER, C_DISC, 0, FLAG>>, <<72>>}

PeerNoise ==
    /\ rxPc = "peer"
    /\ txPc \in {"open_wait", "close_wait"}
    /\ chanRT = <<>>
    /\ peerSent < MaxPeerFrames
    /\ \E f \in HandshakeNoise : chanRT' = <<f>>
    /\ peerSent' = peerSent + 1
    /\ UNCHANGED <<cfgVars, closeVars, codecVars, txVars, rxVars, histVars, chanTR>>

NextHandshake ==
    \/ LlopenTx \/ LlopenTxRead \/ LlopenTxTimeout
    \/ LlcloseTx \/ LlcloseTxRead \/ LlcloseTxTimeout
    \/ HandleAlarm \/ PeerNoise

SpecHandshake == InitTx /\ [][NextHandshake]_vars

-----------------------------------------------------------------------------
(* Codec harness: stuffData, then destuffData, on every short byte string *)
CodecAlphabet == {FLAG, ESC, ESC_FLAG, ESC_ESC, 72}

ByteSeqs(n) == UNION {[1..k -> CodecAlphabet] : k \in 0..n}

InitCodec ==
    /\ cdata \in ByteSeqs(MaxLen)
    /\ cstuffed = <<>> /\ cdest = <<>> /\ cpc = "input"
    /\ TxInit /\ RxInit /\ HistInit /\ CfgInit /\ CloseInit
    /\ chanTR = <<>> /\ chanRT = <<>>

StuffCall ==
    /\ cpc = "input"
    /\ cstuffed' = stuffData(cdata)
    /\ cpc' = "stuffed"
    /\ UNCHANGED <<cdata, cdest, txVars, rxVars, chanVars, histVars>>
    /\ UNCHANGED <<cfgVars, peerVars, closeVars>>

DestuffCall ==
    /\ cpc = "stuffed"
    /\ cdest' = destuffData(cstuffed)
    /\ cpc' = "destuffed"
    /\ UNCHANGED <<cdata, cstuffed, txVars, rxVars, chanVars, histVars>>
    /\ UNCHANGED <<cfgVars, peerVars, closeVars>>

NextCodec == StuffCall \/ DestuffCall

SpecCodec == InitCodec /\ [][NextCodec]_vars

-----------------------------------------------------------------------------
(* Receiver harness: llread fed a byte stream by a transmitter whose side  *)
(* of the line is not modelled                                             *)
InitRx ==
    /\ CodecIdle /\ HistInit /\ CfgInit /\ CloseInit
    /\ txPc = "feeder" /\ portTx = TRUE /\ retries = 0 /\ txState = 0
    /\ receivedControl = 0 /\ ackReceived = FALSE
    /\ alarmFlag = 0 /\ alarmArmed = FALSE
    /\ sequenceNumber = 0 /\ txBuf = <<>> /\ txRet = 0
    /\ rxPc = "ready" /\ portRx = TRUE /\ rxState = 0
    /\ inFrame = FALSE /\ frame = <<>> /\ expectedSeq = 0
    /\ rxRet = 0 /\ packet = <<>>
    /\ chanTR = <<>> /\ chanRT = <<>>

Garbage == {<<72>>, <<FLAG>>, <<FLAG, FLAG>>, <<FLAG, A_SENDER, C_I0>>}

DamageVals == {0, FLAG, ESC, 105}

Replace(q, k, b) == [q EXCEPT ![k] = b]

\* frames around p || BCC2(p) with exactly one byte changed
DamagedFrames ==
    {FrameAround(Replace(p \o <<BCC2(p)>>, k, b), sn) :
        <<p, k, b, sn>> \in {x \in Payloads \X (1..3) \X DamageVals \X {0, 1} :
                               /\ x[2] <= Len(x[1]) + 1
                               /\ (x[1] \o <<BCC2(x[1])>>)[x[2]] # x[3]}}

HeaderVals == {0, 1, 64}

\* I-frames with one of A, C, BCC1 changed
HeaderDamagedFrames ==
    {Replace(IFrame(p, sn), k, b) :
        <<p, k, b, sn>> \in {x \in Payloads \X (2..4) \X HeaderVals \X {0, 1} :
                               IFrame(x[1], x[4])[x[2]] # x[3]}}

Feed(bytes, kind) ==
    /\ txPc = "feeder"
    /\ chanTR = <<>>
    /\ Len(fedKinds) < MaxFeeds
    /\ chanTR' = <<bytes>>
    /\ fedKinds' = Append(fedKinds, kind)
    /\ UNCHANGED <<cfgVars, peerVars, closeVars, codecVars, rxVars, chanRT>>
    /\ UNCHANGED <<txPc, portTx, retries, txState, receivedControl, ackReceived,
                   alarmFlag, alarmArmed, txRet>>
    /\ UNCHANGED <<written, delivered, sentLog, rdLog, txTail, faults, rrDrops, writes>>

\* the next packet, in the frame llwrite builds for it: the k-th new frame
\* carries the sequence bit of the k-th successful write
FeedNew ==
    \E p \in Payloads :
        /\ Feed(IFrame(p, Len(fed) % 2), "new")
        /\ txBuf' = p
        /\ fed' = Append(fed, p)
        /\ UNCHANGED sequenceNumber

\* the last new frame once more, as llwrite retransmits it
FeedAgain ==
    /\ fed # <<>>
    /\ Feed(IFrame(fed[Len(fed)], (Len(fed) - 1) % 2), "again")
    /\ UNCHANGED <<txBuf, fed, sequenceNumber>>

FeedGarbage ==
    \E g \in Garbage :
        /\ Feed(g, "garbage")
        /\ UNCHANGED <<txBuf, fed, sequenceNumber>>

FeedDamaged ==
    \E f \in DamagedFrames :
        /\ Feed(f, "damaged")
        /\ UNCHANGED <<txBuf, fed, sequenceNumber>>

FeedHeaderDamaged ==
    \E f \in HeaderDamagedFrames :
        /\ Feed(f, "header")
        /\ UNCHANGED <<txBuf, fed, sequenceNumber>>

\* I-frames whose stuffed region ends with a lone escape byte after a
\* complete p || BCC2(p)
TrailingEscFrames ==
    {<<FLAG, A_SENDER, IControl(sn), Xor(A_SENDER, IControl(sn))>>
         \o stuffData(p \o <<BCC2(p)>>) \o <<ESC, FLAG>> :
        <<p, sn>> \in {<<72>>} \X {0, 1}}

FeedTrailingEsc ==
    \E f \in TrailingEscFrames :
        /\ Feed(f, "trailing_esc")
        /\ UNCHANGED <<txBuf, fed, sequenceNumber>>

\* well-formed I-frames (BCC1 and BCC2 match) from another address
OtherAddresses == {A_RECEIVER}

WrongAddressFrames ==
    {<<FLAG, a, IControl(sn), Xor(a, IControl(sn))>>
         \o stuffData(p \o <<BCC2(p)>>) \o <<FLAG>> :
        <<a, p, sn>> \in OtherAddresses \X {<<72>>} \X {0, 1}}

FeedWrongAddress ==
    \E f \in WrongAddressFrames :
        /\ Feed(f, "address")
        /\ UNCHANGED <<txBuf, fed, sequenceNumber>>

\* the next two packets in their frames, back to back: with one flag closing
\* the first and opening the second, or with each frame keeping its flags
FeedPair ==
    \E p1 \in Payloads, p2 \in {<<72>>}, shared \in BOOLEAN :
        LET f1 == IFrame(p1, Len(fed) % 2)
            f2 == IFrame(p2, (Len(fed) + 1) % 2)
        IN  /\ Feed(f1 \o (IF shared THEN Tail(f2) ELSE f2),
                    IF shared THEN "shared" ELSE "double")
            /\ txBuf' = p2
            /\ fed' = fed \o <<p1, p2>>
            /\ UNCHANGED sequenceNumber

NextRx == LlreadRead \/ FeedNew \/ FeedAgain \/ FeedGarbage \/ FeedDamaged
             \/ FeedHeaderDamaged \/ FeedTrailingEsc \/ FeedWrongAddress
             \/ FeedPair

SpecRx == InitRx /\ [][NextRx]_vars

\* llread fed frames about as long as its capture buffer: between the two
\* flags a header with a damaged BCC1 and as many data bytes as bring the
\* bytes after the opening flag to FRAME_BUF - 2, FRAME_BUF - 1 and FRAME_BUF
LongLens == {FRAME_BUF - 2, FRAME_BUF - 1, FRAME_BUF}

LongFrame(n, sn) ==
    <<FLAG, A_SENDER, IControl(sn), BitFlip(Xor(A_SENDER, IControl(sn)))>>
        \o [i \in 1..(n - 3) |-> 72] \o <<FLAG>>

LongFrames == {LongFrame(n, sn) : <<n, sn>> \in LongLens \X {0, 1}}

FeedLong ==
    \E f \in LongFrames :
        /\ Feed(f, "long")
        /\ UNCHANGED <<txBuf, fed, sequenceNumber>>

NextRxLong == LlreadRead \/ FeedNew \/ FeedAgain \/ FeedLong

SpecRxLong == InitRx /\ [][NextRxLong]_vars

\* llclose of the receiver, fed by the same kind of transmitter: its DISC,
\* its final UA, a UA from the wrong address, a SET, a stray byte, in any
\* order, any of them missing
CloseFeedFrames ==
    {DiscTx, FinalUA, SupFrame(A_SENDER, C_UA), SupFrame(A_SENDER, C_SET), <<72>>}

FeedClose ==
    /\ txPc = "feeder"
    /\ chanTR = <<>>
    /\ peerSent < MaxCloseFeeds
    /\ \E f \in CloseFeedFrames : chanTR' = <<f>>
    /\ peerSent' = peerSent + 1
    /\ UNCHANGED <<cfgVars, closeVars, codecVars, txVars, rxVars, histVars, chanRT>>

NextCloseRx ==
    \/ LlcloseRx \/ LlcloseRxRead \/ LlcloseRxReadUA \/ LlcloseRxTimeout
    \/ HandleAlarmRx \/ FeedClose

\* the receiver is a running process and its timer, once armed, fires
SpecCloseRx ==
    /\ InitRx /\ [][NextCloseRx]_vars
    /\ WF_vars(LlcloseRxReadUA) /\ WF_vars(LlcloseRxTimeout) /\ WF_vars(HandleAlarmRx)

-----------------------------------------------------------------------------
(* Properties *)
RECURSIVE XorReduce(_)
XorReduce(s) == IF s = <<>> THEN 0 ELSE Xor(Head(s), XorReduce(Tail(s)))

WrittenData == [n \in 1..Len(written) |-> written[n].data]

\* a call of llread returns in this step (every return path sends one frame)
ReadReturns == rxPc = "ready" /\ Len(chanRT') > Len(chanRT)

BCC1Bad(f) == Xor(f[2], f[3]) # f[4]

Body(f) == destuffData(SubSeq(f, 5, Len(f) - 1))

BCC2Bad(f) ==
    LET d == Body(f)
    IN  IF d = <<>> THEN TRUE
        ELSE XorReduce(SubSeq(d, 1, Len(d) - 1)) # d[Len(d)]

\* C1: once the transmitter is back from its writes and nothing is left on
\* the line towards the receiver, the payloads returned by the successful
\* reads are exactly the payloads of the successful writes, in order, each
\* once.
C1_InOrderExactlyOnce ==
    (txPc = "ready" /\ chanTR = <<>> /\ ~inFrame) => delivered = WrittenData

\* C2: when the channel only drops acknowledgments and everything else
\* arrives in time, a write fails only after N or more of its RR frames
\* have been dropped; with fewer drops it returns success.
C2_AckLossProgress ==
    txPc = "write_failed" => rrDrops >= MAX_RETRIES

\* C3: when a read captures the very frame the previous read accepted, it
\* returns -1, delivers nothing and answers with an RR carrying the control
\* byte of the RR that answered the first.
C3_DuplicateSuppression ==
    [][(/\ ReadReturns
        /\ rdLog # <<>>
        /\ rdLog[1].ret >= 0
        /\ rdLog'[1].frame = rdLog[1].frame)
       => (/\ rdLog'[1].ret = -1
           /\ delivered' = delivered
           /\ rdLog'[1].reply \in {C_RR0, C_RR1}
           /\ rdLog'[1].reply = rdLog[1].reply)]_vars

\* C4 as stated: a write that gets no acknowledgment at all has transmitted
\* its I-frame N+1 times when it returns -1, the sequence bit unchanged.
C4_GiveupAfterNPlus1 ==
    (txPc = "write_failed" /\ txTail = <<>>)
        => (/\ Len(sentLog) = MAX_RETRIES + 1
            /\ txRet = -1
            /\ sentLog[1] = IControl(sequenceNumber))

\* C4 amended: a write that gets no acknowledgment at all has transmitted
\* its I-frame exactly N times (N = MAX_RETRIES) when it returns -1, and
\* the sequence bit is the one its first frame carried.
C4_GiveupAfterN ==
    (txPc = "write_failed" /\ txTail = <<>>)
        => (/\ Len(sentLog) = MAX_RETRIES
            /\ txRet = -1
            /\ \A i \in 1..Len(sentLog) : sentLog[i] = IControl(sequenceNumber))

C4_Witness ==
    txPc = "write_failed" /\ txTail = <<>> /\ rrDrops = MAX_RETRIES

\* C5: the I-frames of the successful writes carry the bits 0,1,0,1,...; the
\* sender bit changes only with a successful write and every frame of a
\* write, retransmitted or given up, carries the bit the write started with;
\* the expected bit has flipped once per successful read, and a read that
\* returns -1 leaves it alone.
C5_SequenceAlternation ==
    /\ \A n \in 1..Len(written) : written[n].sn = (n - 1) % 2
    /\ sequenceNumber = Len(written) % 2
    /\ (txPc \in {"write_wait", "write_failed"}
          => \A i \in 1..Len(sentLog) : SeqBit(sentLog[i]) = sequenceNumber)
    /\ expectedSeq = Len(delivered) % 2
    /\ (rdLog # <<>>
          => expectedSeq = IF rdLog[1].ret >= 0 THEN 1 - rdLog[1].exp ELSE rdLog[1].exp)

C5_Witness ==
    /\ Len(written) = 2
    /\ Len(delivered) = 2
    /\ rdLog # <<>> /\ rdLog[1].ret = -1 /\ rdLog[1].reply \in {C_REJ0, C_REJ1}

\* C6: a captured I-frame whose BCC1 or BCC2 does not match is answered with
\* the REJ of the expected sequence, returns -1, delivers nothing and leaves
\* the expected bit alone, whatever its sequence bit; a read that returns a
\* payload captured a frame whose BCC1 and BCC2 match.
C6_CorruptionHandling ==
    (rdLog # <<>> /\ Len(rdLog[1].frame) >= 5)
        => LET r == rdLog[1]
           IN  /\ (BCC1Bad(r.frame) \/ BCC2Bad(r.frame))
                     => (/\ r.reply = (IF r.exp = 0 THEN C_REJ0 ELSE C_REJ1)
                         /\ r.ret = -1
                         /\ r.data = <<>>
                         /\ expectedSeq = r.exp)
               /\ r.ret >= 0 => (~BCC1Bad(r.frame) /\ ~BCC2Bad(r.frame))

\* C7: with only new valid frames and garbage fed, once the receiver has
\* read all of it, every valid frame has been accepted and delivered.
C7_FramingRobustness ==
    (chanTR = <<>> /\ \A i \in 1..Len(fedKinds) : fedKinds[i] \in {"new", "garbage"})
        => delivered = fed

\* C8: destuffData(stuffData(s)) is s, of the same length, and stuffData(s)
\* holds no flag byte.
C8_StuffingRoundTrip ==
    /\ cpc \in {"stuffed", "destuffed"}
          => \A i \in 1..Len(cstuffed) : cstuffed[i] # FLAG
    /\ cpc = "destuffed" => (cdest = cdata /\ Len(cdest) = Len(cdata))

C8_Witness ==
    cpc = "destuffed" /\ cdata = <<ESC, ESC_FLAG, FLAG>> /\ Len(cstuffed) = 5

C10_Handshake ==
    /\ []( /\ (txPc = "open_wait" /\ rxPc = "start")
                => chanTR = << <<126, 3, 3, 0, 126>> >>
           /\ (rxPc = "ready" /\ txPc = "open_wait" /\ txTail = <<>>)
                => chanRT = << <<126, 1, 7, 6, 126>> >>
           /\ (txPc = "ready" /\ writes = 0)
                => (txTail = <<126, 1, 7, 6, 126>> /\ txRet >= 0 /\ rxPc = "ready")
           /\ txPc # "open_failed" )
    /\ <>(txPc = "ready" /\ rxPc = "ready" /\ txRet >= 0 /\ rxRet >= 0)

C10_Witness ==
    txPc = "ready" /\ rxPc = "ready" /\ writes = 0 /\ txTail = <<126, 1, 7, 6, 126>>

TeardownFrames ==
    << <<126, 3, 11, 8, 126>>, <<126, 1, 11, 10, 126>>, <<126, 1, 7, 6, 126>> >>

\* C11: on a loss-free line the frames written by the two llclose calls are,
\* session after session, DISC from the transmitter, DISC from the receiver,
\* UA from the transmitter; the receiver still waiting for the DISC has not
\* written its own; no llclose fails, each returns 0 with its port closed, and
\* each llclose called does return.
C11_Teardown ==
    /\ [](\A i \in 1..Len(closeLog) : closeLog[i] = TeardownFrames[((i - 1) % 3) + 1])
    /\ [](rxPc = "close_wait_disc" => Len(closeLog) % 3 \in {0, 1})
    /\ [](txPc # "close_failed")
    /\ [](txPc = "closed" => (txRet = 0 /\ ~portTx))
    /\ [](rxPc = "closed" => (rxRet = 0 /\ ~portRx))
    /\ (txPc = "close_wait" ~> txPc = "closed")
    /\ (rxPc = "close_wait_disc" ~> rxPc = "closed")

C11_Witness ==
    /\ txPc = "closed" /\ rxPc = "closed"
    /\ closeLog = TeardownFrames
    /\ chanTR = <<>> /\ chanRT = <<>>

\* C12: an llopen, llwrite or llclose of the transmitter that has run out of
\* retries has returned -1 and left the serial port closed.
C12_GiveupClosesPort ==
    txPc \in {"open_failed", "write_failed", "close_failed"}
        => (txRet = -1 /\ ~portTx)

\* C13: the timer is armed for the configured timeout, and an llwrite that
\* gives up has transmitted as often as the configured nRetransmissions
\* allows (that many times, or once more).
C13_ConfigUsed ==
    /\ alarmArmed => AlarmSeconds = timeout
    /\ txPc = "write_failed"
          => Len(sentLog) \in {nRetransmissions, nRetransmissions + 1}

\* C14: when an llopen returns success, in the first session or in a later
\* one on the same endpoint, the sender bit is 0 (the first I-frame will
\* carry control 0x00) and the receiver's expected bit is 0.
C14_FreshSequenceState ==
    [][/\ (txPc = "open_wait" /\ txPc' = "ready")
            => (sequenceNumber' = 0 /\ IControl(sequenceNumber') = 0)
       /\ (rxPc = "open_wait" /\ rxPc' = "ready")
            => expectedSeq' = 0]_vars

\* the two frames awaited with sender bit ss: RR of the next sequence and REJ
\* of the current one, from address 0x01, with matching BCC1
AwaitedRR(ss) == IF ss = 0 THEN <<126, 1, 133, 132, 126>> ELSE <<126, 1, 5, 4, 126>>

AwaitedREJ(ss) == IF ss = 0 THEN <<126, 1, 1, 0, 126>> ELSE <<126, 1, 129, 128, 126>>

\* this step of llwrite leaves the wait loop: it returns or retransmits
WaitEnds == txPc = "write_wait" /\ (txPc' # "write_wait" \/ sentLog' # sentLog)

\* C15: the wait of llwrite takes a frame as acknowledgment only if the last
\* five bytes read are the awaited RR or the awaited REJ, and does take each
\* of these when it arrives after a flag; without such a frame the wait ends
\* only by the timer, and the sender bit changes only on the awaited RR.
C15_AckAcceptance ==
    [][/\ (txPc = "write_wait" /\ ~ackReceived /\ ackReceived')
            => txTail' \in {AwaitedRR(sequenceNumber), AwaitedREJ(sequenceNumber)}
       /\ (/\ txPc = "write_wait" /\ ~ackReceived /\ alarmFlag = 0 /\ txState = 1
           /\ chanRT \in {<<Tail(AwaitedRR(sequenceNumber))>>,
                          <<Tail(AwaitedREJ(sequenceNumber))>>}
           /\ chanRT' = <<>>)
            => ackReceived'
       /\ WaitEnds
            => \/ alarmFlag = 1
               \/ ackReceived /\ txTail \in {AwaitedRR(sequenceNumber),
                                             AwaitedREJ(sequenceNumber)}
       /\ sequenceNumber' # sequenceNumber
            => (ackReceived /\ txTail = AwaitedRR(sequenceNumber))]_vars

\* a well-formed RR for the current sequence has been read and ignored
C15_Witness ==
    /\ txPc = "write_wait" /\ ~ackReceived /\ alarmFlag = 0 /\ retries = 0
    /\ chanRT = <<>>
    /\ sequenceNumber = 1
    /\ txTail = <<126, 1, 133, 132, 126>>
    /\ txState = 1

WaitPcs == {"open_wait", "write_wait", "close_wait"}

\* C16: when llwrite leaves its wait with an acknowledgment accepted, the
\* outcome is the acknowledgment's, whether or not the timer has fired in
\* between: the awaited RR makes it return the payload length with the bit
\* flipped, the REJ makes it count a retry and retransmit (or give up). The
\* timer is armed only while a wait lasts, and every wait starts with a
\* freshly armed timer and alarmFlag cleared.
C16_TimerTieBreak ==
    [][/\ (WaitEnds /\ ackReceived)
            => IF txTail = AwaitedRR(sequenceNumber)
               THEN /\ txPc' = "ready" /\ txRet' = Len(txBuf)
                    /\ sequenceNumber' = 1 - sequenceNumber
               ELSE /\ sequenceNumber' = sequenceNumber
                    /\ retries' = retries + 1
                    /\ \/ txPc' = "write_failed" /\ retries' = MAX_RETRIES
                       \/ /\ txPc' = "write_wait"
                          /\ chanTR' = Append(chanTR, IFrame(txBuf, sequenceNumber))
       /\ alarmArmed' => txPc' \in WaitPcs
       /\ (txPc' \in WaitPcs /\ Len(chanTR') > Len(chanTR))
            => (alarmArmed' /\ alarmFlag' = 0)]_vars

\* llwrite has returned success although the timer fired before it
\* evaluated the acknowledgment
C16_Witness ==
    /\ txPc = "ready" /\ txRet > 0 /\ written # <<>>
    /\ alarmFlag = 1 /\ ~alarmArmed

\* C17: when llwrite leaves its wait on the REJ of the current sequence, it
\* counts one retry and keeps the sender bit; below the bound it writes the
\* same I-frame again at once, timer armed anew, and at the bound it returns
\* -1; a write that fails has transmitted MAX_RETRIES frames, all with the
\* same control byte, whether the answers were REJs or none.
C17_RejHandling ==
    /\ [][(WaitEnds /\ ackReceived /\ txTail = AwaitedREJ(sequenceNumber))
            => /\ retries' = retries + 1
               /\ sequenceNumber' = sequenceNumber
               /\ txBuf' = txBuf
               /\ IF retries + 1 < MAX_RETRIES
                  THEN /\ txPc' = "write_wait"
                       /\ chanTR' = Append(chanTR, IFrame(txBuf, sequenceNumber))
                       /\ alarmArmed' /\ alarmFlag' = 0
                  ELSE /\ txPc' = "write_failed" /\ txRet' = -1
                       /\ chanTR' = chanTR]_vars
    /\ [](txPc = "write_failed"
            => /\ Len(sentLog) = MAX_RETRIES
               /\ \A i \in 1..Len(sentLog) : sentLog[i] = sentLog[1])

\* a write given up on a REJ, the timer not having fired in the last wait
C17_Witness ==
    /\ txPc = "write_failed" /\ alarmFlag = 0
    /\ txTail = AwaitedREJ(sequenceNumber)
    /\ Len(sentLog) = MAX_RETRIES

\* the stuffed region of a captured frame: the bytes between BCC1 and the
\* closing flag
StuffedRegion(f) == SubSeq(f, 5, Len(f) - 1)

EndsWithEscape(f) ==
    /\ Len(f) >= 6
    /\ f[Len(f) - 1] = 125
    /\ (Len(f) = 6 \/ f[Len(f) - 2] # 125)

\* C18: a read that captured an I-frame with valid BCC1 whose stuffed region
\* ends with a lone escape byte 0x7D answers with the REJ of the expected
\* sequence, returns -1, delivers nothing and keeps the expected bit.
C18_TrailingEscape ==
    (rdLog # <<>> /\ EndsWithEscape(rdLog[1].frame) /\ ~BCC1Bad(rdLog[1].frame))
        => LET r == rdLog[1]
           IN  /\ r.reply = (IF r.exp = 0 THEN 1 ELSE 129)
               /\ r.ret = -1
               /\ r.data = <<>>
               /\ expectedSeq = r.exp

\* C19: a read that captured a frame of five bytes or more whose address
\* byte is not 0x03 has sent neither RR nor REJ, returned no payload and
\* kept the expected bit.
C19_AddressDiscipline ==
    (rdLog # <<>> /\ Len(rdLog[1].frame) >= 5 /\ rdLog[1].frame[2] # 3)
        => LET r == rdLog[1]
           IN  /\ r.reply \notin {C_RR0, C_RR1, C_REJ0, C_REJ1}
               /\ r.ret = -1
               /\ r.data = <<>>
               /\ expectedSeq = r.exp

\* C20: with only valid new frames fed, single or in back-to-back pairs
\* (sharing one flag, or with two flags between them), once the receiver
\* has read all of it every payload has been returned, in order, and every
\* reply written is an RR.
C20_SharedFlags ==
    (chanTR = <<>> /\ \A i \in 1..Len(fedKinds) : fedKinds[i] \in {"new", "shared", "double"})
        => /\ delivered = fed
           /\ \A i \in 1..Len(chanRT) : chanRT[i][3] \in {C_RR0, C_RR1}

\* how many of the frames written to the line so far are f
RECURSIVE CountFrames(_, _)
CountFrames(ch, f) ==
    IF ch = <<>> THEN 0
    ELSE (IF Head(ch) = f THEN 1 ELSE 0) + CountFrames(Tail(ch), f)

SetFrame == <<126, 3, 3, 0, 126>>

DiscFrame == <<126, 3, 11, 8, 126>>

\* C21 as stated: an llopen of the transmitter that gives up has transmitted
\* SET N+1 times, closed the port and returned -1; an llclose of the
\* transmitter that gives up has transmitted DISC N+1 times.
C21_HandshakeNPlus1 ==
    /\ txPc = "open_failed"
          => (CountFrames(chanTR, SetFrame) = MAX_RETRIES + 1 /\ ~portTx /\ txRet = -1)
    /\ txPc = "close_failed"
          => CountFrames(chanTR, DiscFrame) = MAX_RETRIES + 1

\* C21 amended: an llopen of the transmitter that gives up has transmitted
\* SET exactly N times (N = MAX_RETRIES), closed the port and returned -1; an
\* llclose of the transmitter that gives up has transmitted DISC exactly N
\* times; neither ever transmits more; and inside a handshake a frame is
\* written only after the timer of the previous attempt has fired.
C21_HandshakeRetries ==
    /\ [](txPc = "open_failed"
            => (CountFrames(chanTR, SetFrame) = MAX_RETRIES /\ ~portTx /\ txRet = -1))
    /\ [](txPc = "close_failed"
            => (CountFrames(chanTR, DiscFrame) = MAX_RETRIES /\ ~portTx /\ txRet = -1))
    /\ [](CountFrames(chanTR, SetFrame) <= MAX_RETRIES
            /\ CountFrames(chanTR, DiscFrame) <= MAX_RETRIES)
    /\ [][(txPc \in {"open_wait", "close_wait"} /\ chanTR' # chanTR)
            => (alarmFlag = 1 /\ alarmFlag' = 0 /\ alarmArmed')]_vars

\* llclose has given up after an llopen that needed a retransmission
C21_Witness ==
    /\ txPc = "close_failed"
    /\ CountFrames(chanTR, SetFrame) = 2
    /\ CountFrames(chanTR, DiscFrame) = MAX_RETRIES
    /\ Len(chanTR) = MAX_RETRIES + 2

\* C22: once the receiver's llclose has accepted the DISC and written its
\* own, it returns 0 with the port closed, and it does so on accepting the
\* UA 7E 01 07 06 7E or on its timer having fired, and not otherwise; and
\* it does return, whether the UA arrives or not.
C22_ReceiverCloseFinishes ==
    /\ [][(rxPc = "close_wait_ua" /\ rxPc' # "close_wait_ua")
            => /\ rxPc' = "closed" /\ ~portRx' /\ rxRet' = 0 /\ ~rxAlarmArmed'
               /\ \/ rxAlarmFlag = 1
                  \/ rxState = 1 /\ Head(chanTR) = <<1, 7, 6, 126>>]_vars
    /\ (rxPc = "close_wait_ua" ~> (rxPc = "closed" /\ ~portRx /\ rxRet = 0))

\* the receiver's llclose has returned on its timer: only the DISC was fed
C22_Witness ==
    /\ rxPc = "closed" /\ ~portRx /\ rxRet = 0
    /\ rxAlarmFlag = 1
    /\ peerSent = 1
    /\ chanTR = <<>>

\* C23: the I-frame that llwrite builds for a payload of L >= 1 bytes and
\* writes to the line is no longer than the 2*L+6 bytes of its buffer: the
\* index of its closing flag, the highest index written, is below 2*L+6.
C23_WriteBufferBound ==
    [][(txPc' = "write_wait" /\ Len(chanTR') > Len(chanTR))
         => LET f == chanTR'[Len(chanTR')]
            IN  /\ Len(txBuf') >= 1
                /\ f[Len(f)] = 126
                /\ Len(f) - 1 < FrameAlloc(Len(txBuf'))]_vars

\* C24: every frame a read has captured, closing flag included, lies inside
\* the FRAME_BUF bytes of the capture buffer: the closing flag is stored at
\* an index of at most FRAME_BUF - 1; and a frame with more bytes than that
\* is not captured.
C24_ReadBufferBound ==
    /\ Len(frame) <= FRAME_BUF
    /\ rdLog # <<>> => Len(rdLog[1].frame) - 1 <= FRAME_BUF - 1

\* C25: when an llwrite returns success, the sender bit equals the
\* receiver's expected bit, and the receiver has accepted and delivered as
\* many frames as writes have succeeded.
C25_EndpointAgreement ==
    [][(txPc = "write_wait" /\ txPc' = "ready")
         => (sequenceNumber' = expectedSeq' /\ Len(delivered') = Len(written'))]_vars

\* C26: on a line that loses nothing but the receiver's UA, with every timer
\* firing only once the line is quiet, the transmitter's llopen does not
\* fail, and a SET read by the receiver after its llopen has returned (in
\* llread) is answered with the UA 7E 01 07 06 7E.
C26_LostUARecovery ==
    /\ [](txPc # "open_failed")
    /\ [][(ReadReturns /\ rdLog' # <<>> /\ rdLog' # rdLog /\ rdLog'[1].frame = SetFrame)
            => chanRT' = Append(chanRT, <<126, 1, 7, 6, 126>>)]_vars

=============================================================================
